---------------------------- MODULE Spec2Model ----------------------------
(***************************************************************************)
(* Character animations: rule construction, clip scoring and selection,    *)
(* playback advancement and the per-scene registry of src/main.ts.         *)
(*                                                                         *)
(* Numbers are the non-negative 32-bit integers the bitmasks live in; the  *)
(* bitwise operators are computed bit by bit.  A controller's clips are    *)
(* objects that are never removed from `animations`, so a clip's identity  *)
(* is its position in that array.                                          *)
(***************************************************************************)
EXTENDS Integers, Sequences, FiniteSets, TLC

(***************************************************************************)
(* JavaScript's bitwise operators on non-negative integers.                *)
(***************************************************************************)
RECURSIVE BitAnd(_, _)
BitAnd(a, b) ==
    IF a = 0 \/ b = 0 THEN 0
    ELSE (a % 2) * (b % 2) + 2 * BitAnd(a \div 2, b \div 2)

RECURSIVE BitOr(_, _)
BitOr(a, b) ==
    IF a = 0 THEN b
    ELSE IF b = 0 THEN a
    ELSE (IF a % 2 = 1 \/ b % 2 = 1 THEN 1 ELSE 0) + 2 * BitOr(a \div 2, b \div 2)

RECURSIVE Shl(_, _)
Shl(a, n) == IF n = 0 THEN a ELSE Shl(2 * a, n - 1)

Shr(a) == a \div 2

(***************************************************************************)
(* enum Predicate                                                          *)
(***************************************************************************)
NotMoving == 1
Moving == 2
FacingUp == 4
FacingRight == 8
FacingDown == 16
FacingLeft == 32
MovingUp == 64
MovingRight == 128
MovingDown == 256
MovingLeft == 512
HittingWallUp == 1024
HittingWallRight == 2048
HittingWallDown == 4096
HittingWallLeft == 8192

Predicate ==
    { NotMoving, Moving, FacingUp, FacingRight, FacingDown, FacingLeft,
      MovingUp, MovingRight, MovingDown, MovingLeft,
      HittingWallUp, HittingWallRight, HittingWallDown, HittingWallLeft }

FACING == BitOr(BitOr(FacingUp, FacingRight), BitOr(FacingDown, FacingLeft))

MOVING ==
    BitOr(BitOr(BitOr(MovingUp, MovingRight), BitOr(MovingDown, MovingLeft)), Moving)

\* A value that is absent: a parameter not supplied, a field never assigned.
\* It is falsy, like 0.
undefined == 0

\* The value pickRule returns for "no clip".
null == 0 - 1

(***************************************************************************)
(* function score(state, rule)                                             *)
(***************************************************************************)
Truthy(x) == x # 0

\* (x \in {e} names the value of e, computed once.)
ScoreBitTest(state, rule, index) ==
    \E bit \in {Shl(1, index)} :
        Truthy(BitOr(state, bit)) /\ Truthy(BitOr(rule, bit))

RECURSIVE ScoreLoop(_, _, _, _, _)
ScoreLoop(state, rule, res, index, check) ==
    IF ~Truthy(check) THEN res
    ELSE ScoreLoop(state, rule,
                   IF ScoreBitTest(state, rule, index) THEN res + 1 ELSE res,
                   index + 1, Shr(check))

score(state, rule) == ScoreLoop(state, rule, 0, 0, state)

(***************************************************************************)
(* export function rule(p1, p2?, p3?, p4?, p5?)                            *)
(***************************************************************************)
\* Mutant: the fourth predicate is dropped.
RuleOrDropsP4(p1, p2, p3, p4) ==
    LET r1 == p1
        r2 == IF Truthy(p2) THEN BitOr(r1, p2) ELSE r1
        r3 == IF Truthy(p3) THEN BitOr(r2, p3) ELSE r2
    IN  r3

RuleOr(p1, p2, p3, p4) ==
    LET r1 == p1
        r2 == IF Truthy(p2) THEN BitOr(r1, p2) ELSE r1
        r3 == IF Truthy(p3) THEN BitOr(r2, p3) ELSE r2
        r4 == IF Truthy(p4) THEN BitOr(r3, p4) ELSE r3
    IN  r4

\* Mutant: the left-wall check is missing.
RuleInvalidNoLeftWall(r) ==
    \/ Truthy(BitAnd(r, NotMoving)) /\ Truthy(BitAnd(r, MOVING))
    \/ /\ Truthy(BitAnd(r, BitOr(MovingLeft, FacingLeft)))
       /\ Truthy(BitAnd(r, BitOr(MovingRight, FacingRight)))
    \/ /\ Truthy(BitAnd(r, BitOr(MovingUp, FacingUp)))
       /\ Truthy(BitAnd(r, BitOr(MovingDown, FacingDown)))
    \/ Truthy(BitAnd(r, MovingDown)) /\ Truthy(BitAnd(r, HittingWallDown))
    \/ Truthy(BitAnd(r, MovingUp)) /\ Truthy(BitAnd(r, HittingWallUp))
    \/ Truthy(BitAnd(r, MovingRight)) /\ Truthy(BitAnd(r, HittingWallRight))

RuleInvalid(r) ==
    \/ Truthy(BitAnd(r, NotMoving)) /\ Truthy(BitAnd(r, MOVING))
    \/ /\ Truthy(BitAnd(r, BitOr(MovingLeft, FacingLeft)))
       /\ Truthy(BitAnd(r, BitOr(MovingRight, FacingRight)))
    \/ /\ Truthy(BitAnd(r, BitOr(MovingUp, FacingUp)))
       /\ Truthy(BitAnd(r, BitOr(MovingDown, FacingDown)))
    \/ Truthy(BitAnd(r, MovingDown)) /\ Truthy(BitAnd(r, HittingWallDown))
    \/ Truthy(BitAnd(r, MovingUp)) /\ Truthy(BitAnd(r, HittingWallUp))
    \/ Truthy(BitAnd(r, MovingRight)) /\ Truthy(BitAnd(r, HittingWallRight))
    \/ Truthy(BitAnd(r, MovingLeft)) /\ Truthy(BitAnd(r, HittingWallLeft))

rule(p1, p2, p3, p4, p5) ==
    LET r == RuleOr(p1, p2, p3, p4)
    IN  IF RuleInvalid(r) THEN 0 ELSE r


(***************************************************************************)
(* The host engine's sprite, as CharacterState.update reads it on a tick.  *)
(* A velocity is a number that need not be an integer: it is held in units *)
(* of 1/2, so 1 is 0.5 and -2 is -1.  The bitwise | of update's first test *)
(* converts each operand with ToInt32, which truncates toward zero.        *)
(***************************************************************************)
ToInt32(v) == IF v >= 0 THEN v \div 2 ELSE 0 - ((0 - v) \div 2)

\* this.sprite.vx | this.sprite.vy, as a condition: the OR of two 32-bit
\* integers is nonzero exactly when one of them is.
VelocityOr(vx, vy) == ToInt32(vx) # 0 \/ ToInt32(vy) # 0

\* Mutant: a character that stops faces nowhere.
DeriveMotionForgetsFacing(lastState, vx, vy) ==
    IF VelocityOr(vx, vy)
    THEN LET s1 == BitOr(0, Moving)
             s2 == IF vx > 0 THEN BitOr(s1, BitOr(FacingRight, MovingRight))
                   ELSE IF vx < 0 THEN BitOr(s1, BitOr(FacingLeft, MovingLeft))
                   ELSE s1
             s3 == IF vy > 0 THEN BitOr(s2, BitOr(FacingDown, MovingDown))
                   ELSE IF vy < 0 THEN BitOr(s2, BitOr(FacingUp, MovingUp))
                   ELSE s2
         IN  s3
    ELSE BitOr(0, NotMoving)

\* Mutant: a moving character also keeps the way it faced.
DeriveMotionKeepsFacing(lastState, vx, vy) ==
    LET kept == BitAnd(lastState, FACING)
    IN  IF VelocityOr(vx, vy)
        THEN LET s1 == BitOr(kept, Moving)
                 s2 == IF vx > 0 THEN BitOr(s1, BitOr(FacingRight, MovingRight))
                       ELSE IF vx < 0 THEN BitOr(s1, BitOr(FacingLeft, MovingLeft))
                       ELSE s1
                 s3 == IF vy > 0 THEN BitOr(s2, BitOr(FacingDown, MovingDown))
                       ELSE IF vy < 0 THEN BitOr(s2, BitOr(FacingUp, MovingUp))
                       ELSE s2
             IN  s3
        ELSE BitOr(BitOr(0, NotMoving), kept)

DeriveMotion(lastState, vx, vy) ==
    IF VelocityOr(vx, vy)
    THEN LET s1 == BitOr(0, Moving)
             s2 == IF vx > 0 THEN BitOr(s1, BitOr(FacingRight, MovingRight))
                   ELSE IF vx < 0 THEN BitOr(s1, BitOr(FacingLeft, MovingLeft))
                   ELSE s1
             s3 == IF vy > 0 THEN BitOr(s2, BitOr(FacingDown, MovingDown))
                   ELSE IF vy < 0 THEN BitOr(s2, BitOr(FacingUp, MovingUp))
                   ELSE s2
         IN  s3
    ELSE BitOr(BitOr(0, NotMoving), BitAnd(lastState, FACING))

DeriveWalls(state, sig) ==
    LET s1 == IF sig.bottom THEN BitOr(state, HittingWallDown) ELSE state
        s2 == IF sig.top THEN BitOr(s1, HittingWallUp) ELSE s1
        s3 == IF sig.right THEN BitOr(s2, HittingWallRight) ELSE s2
        s4 == IF sig.left THEN BitOr(s3, HittingWallLeft) ELSE s3
    IN  s4

DeriveState(lastState, sig) ==
    DeriveWalls(DeriveMotion(lastState, sig.vx, sig.vy), sig)

(***************************************************************************)
(* class CharacterAnimation, class CharacterState                          *)
(***************************************************************************)
CharacterAnimation(frames, interval, r) ==
    [frames |-> frames, interval |-> interval, rule |-> r]

\* `current` is never assigned by the constructor.
CharacterState(sprite) ==
    [sprite |-> sprite, animations |-> <<>>, timer |-> 0, frame |-> 0,
     lastState |-> FacingRight, current |-> undefined]

\* Whether `current` refers to a clip object (is neither undefined nor null).
IsClip(cur) == cur # undefined /\ cur # null

\* Mutant: every registration adds a clip.
setFramesAlwaysPushes(c, frames, interval, r) ==
    [c EXCEPT !.animations =
        Append(c.animations, CharacterAnimation(frames, interval, r))]

setFrames(c, frames, interval, r) ==
    LET hits == {i \in 1..Len(c.animations) : c.animations[i].rule = r}
    IN  IF hits # {}
        THEN LET i == CHOOSE j \in hits : \A k \in hits : j <= k
             IN  [c EXCEPT !.animations[i].frames = frames,
                           !.animations[i].interval = interval]
        ELSE [c EXCEPT !.animations =
                  Append(c.animations, CharacterAnimation(frames, interval, r))]

\* Mutant: a candidate that only equals the running best replaces it.
BetterOrEqual(currentScore, bestScore) == currentScore >= bestScore

\* pickRule's comparison of a candidate with the running best.
Better(currentScore, bestScore) == currentScore > bestScore

RECURSIVE PickLoop(_, _, _, _, _)
PickLoop(animations, state, i, best, bestScore) ==
    IF i > Len(animations) THEN [best |-> best, bestScore |-> bestScore]
    ELSE CHOOSE r \in
            { IF Better(currentScore, bestScore)
              THEN PickLoop(animations, state, i + 1, i, currentScore)
              ELSE PickLoop(animations, state, i + 1, best, bestScore) :
                  currentScore \in {score(state, animations[i].rule)} } : TRUE

\* pickRule stores the state, then reads best.rule with best = this.current:
\* with no clip in `current` that read raises a TypeError.
pickRule(c, state) ==
    LET c1 == [c EXCEPT !.lastState = state]
    IN  IF ~IsClip(c.current)
        THEN [ctl |-> c1, threw |-> TRUE, result |-> null]
        ELSE CHOOSE p \in
                { [ctl |-> c1, threw |-> FALSE,
                   result |-> IF r.bestScore = 0 THEN null ELSE r.best] :
                      r \in { PickLoop(c.animations, state, 1, c.current, s0) :
                                s0 \in {score(state, c.animations[c.current].rule)} } }
                : TRUE

\* Mutant: a frame lasts one millisecond longer.
LoopTestStrict(timer, interval) == timer > interval

\* The loop's test.
LoopTest(timer, interval) == timer >= interval

\* The while loop of update on the clip cur = this.current: the timer, the
\* frame and the images set on the sprite when it ends.
RECURSIVE AdvanceLoop(_, _, _, _)
AdvanceLoop(cur, timer, frame, shown) ==
    IF LoopTest(timer, cur.interval)
    THEN CHOOSE r \in { AdvanceLoop(cur, timer - cur.interval, f,
                                    Append(shown, cur.frames[f + 1])) :
                          f \in {(frame + 1) % Len(cur.frames)} } : TRUE
    ELSE [timer |-> timer, frame |-> frame, shown |-> shown]

\* Mutant: the switch forgets to reset the timer.
SwitchToKeepsTimer(c, newAnimation) ==
    IF newAnimation # c.current
    THEN [ctl |-> [c EXCEPT !.frame = 0, !.current = newAnimation],
          shown |-> IF IsClip(newAnimation)
                    THEN <<c.animations[newAnimation].frames[1]>>
                    ELSE <<>>]
    ELSE [ctl |-> c, shown |-> <<>>]

\* The switch of update, once pickRule has returned newAnimation.
SwitchTo(c, newAnimation) ==
    IF newAnimation # c.current
    THEN [ctl |-> [c EXCEPT !.frame = 0, !.timer = 0, !.current = newAnimation],
          shown |-> IF IsClip(newAnimation)
                    THEN <<c.animations[newAnimation].frames[1]>>
                    ELSE <<>>]
    ELSE [ctl |-> c, shown |-> <<>>]

\* update from the line after the call of pickRule to its end.
Playback(c, newAnimation, dt) ==
    LET sw == SwitchTo(c, newAnimation)
    IN  IF ~IsClip(sw.ctl.current) THEN sw
        ELSE LET r == AdvanceLoop(c.animations[sw.ctl.current],
                                  sw.ctl.timer + dt, sw.ctl.frame, sw.shown)
             IN  [ctl |-> [sw.ctl EXCEPT !.timer = r.timer, !.frame = r.frame],
                  shown |-> r.shown]

\* update once pickRule has returned or raised.
AfterPick(pick, dt) ==
    IF pick.threw
    THEN [ctl |-> pick.ctl, shown |-> <<>>, threw |-> TRUE]
    ELSE LET pb == Playback(pick.ctl, pick.result, dt)
         IN  [ctl |-> pb.ctl, shown |-> pb.shown, threw |-> FALSE]

\* CharacterState.update: the controller after the call, the images it set
\* on the sprite in order, and whether it raised.  (x \in {e} names the value
\* of e, computed once.)
update(c, sig, dt) ==
    CHOOSE r \in { AfterPick(pick, dt) :
                     pick \in { pickRule(c, state) :
                                  state \in {DeriveState(c.lastState, sig)} } } : TRUE

(***************************************************************************)
(* Bounds and input sets.                                                  *)
(***************************************************************************)
\* Registrations (loopFrames calls that store a clip) in one run.
MaxCalls == 2
\* Scenes the host has pushed above its first one.
MaxDepth == 1
\* Sprites the host destroys in one run.
MaxDestroyed == 1
\* Cap of the count of consecutive zero-velocity ticks that is kept.
MaxStopped == 2

Sprites == {"s1", "s2"}
\* A sprite argument that is missing.
NoSprite == "none"

\* A number argument: not-a-number, or a value.
NaNValue == [nan |-> TRUE, v |-> 0]
Num(v) == [nan |-> FALSE, v |-> v]

\* An Image[] argument: missing, or a sequence of images.
NoFrames == [present |-> FALSE, images |-> <<>>]
Frames(images) == [present |-> TRUE, images |-> images]

\* The (frames, frameInterval) arguments of the registrations tried.
ClipInputs ==
    { <<NoFrames, Num(10)>>, <<Frames(<<>>), Num(10)>>,
      <<Frames(<<11>>), NaNValue>>, <<Frames(<<21, 22, 23>>), Num(10)>> }

\* The rules a program registers: built by rule(...), one of them invalid.
RuleInputs ==
    { rule(NotMoving, undefined, undefined, undefined, undefined),
      rule(Moving, FacingRight, undefined, undefined, undefined),
      rule(NotMoving, Moving, undefined, undefined, undefined) }

\* What a tick reads from a sprite: velocities in units of 1/2, so <<1, 0>>
\* is (0.5, 0), and the four wall contacts.
Signal(vx, vy, walls) ==
    [vx |-> vx, vy |-> vy, top |-> "top" \in walls, bottom |-> "bottom" \in walls,
     left |-> "left" \in walls, right |-> "right" \in walls]
Signals ==
    { Signal(0, 0, {}), Signal(1, 0, {}), Signal(2, 0, {}),
      Signal(0 - 2, 2, {"left", "bottom"}) }

\* eventContext.deltaTimeMillis of a tick.
Dts == {0, 35}

(***************************************************************************)
(* The program: the scene stack of registries, the host's sprites and      *)
(* scenes, and a record of the last tick.                                  *)
(***************************************************************************)
VARIABLES
    sceneStack,   \* the registries, bottom first; <<>> while not yet created
    inited,       \* sceneStack has been created and the scene handlers added
    depth,        \* scenes the host has pushed and not popped
    destroyed,    \* the sprites whose Destroyed flag is set
    image,        \* the image each sprite displays (0: the one it had)
    calls,        \* registrations made so far
    tick,         \* the last registry update, if it was the last step
    call          \* the last direct call of a function (function-level runs)

vars == <<sceneStack, inited, depth, destroyed, image, calls, tick, call>>

NoShown == [s \in Sprites |-> <<>>]
NoTick == [ran |-> <<>>, before |-> <<>>, threw |-> FALSE, shown |-> NoShown]
NoCall == [op |-> "none"]

\* class CharacterAnimationSceneState
CharacterAnimationSceneState == [characters |-> <<>>]

\* History kept beside a controller: the facing bits derived on its last
\* moving tick (0: none, or a tick with another velocity came since) and the
\* consecutive ticks with velocity (0,0) since then.
NoHistory == [moved |-> 0, stopped |-> 0]

Track(h, sig, state) ==
    IF BitAnd(state, Moving) # 0
    THEN [moved |-> BitAnd(state, FACING), stopped |-> 0]
    ELSE IF sig.vx = 0 /\ sig.vy = 0 /\ h.moved # 0
    THEN [moved |-> h.moved,
          stopped |-> IF h.stopped < MaxStopped THEN h.stopped + 1 ELSE h.stopped]
    ELSE NoHistory

Init ==
    /\ sceneStack = <<>>
    /\ inited = FALSE
    /\ depth = 0
    /\ destroyed = {}
    /\ image = [s \in Sprites |-> 0]
    /\ calls = 0
    /\ tick = NoTick
    /\ call = NoCall

\* Mutant: a new scene's registry replaces the stack.
initSceneDropsStack(stack) == <<CharacterAnimationSceneState>>

\* function initScene
initScene(stack) == Append(stack, CharacterAnimationSceneState)

\* function init: the stack after the call.
init(stack, isSet) ==
    IF isSet
    THEN IF Len(stack) = 0 THEN initScene(stack) ELSE stack
    ELSE initScene(<<>>)

\* Mutant: the empty rule is registered like any other.
RejectedAcceptsEmptyRule(sprite, frames, r) ==
    sprite = NoSprite \/ ~frames.present \/ Len(frames.images) = 0

\* loopFrames' test of its arguments: !sprite || !frames || !frames.length
\* || !rule.
Rejected(sprite, frames, r) ==
    sprite = NoSprite \/ ~frames.present \/ Len(frames.images) = 0 \/ ~Truthy(r)

\* Mutant: only not-a-number is replaced by the floor.
ClampIntervalOnlyNaN(frameInterval) ==
    IF frameInterval.nan THEN 5 ELSE frameInterval.v

\* loopFrames' adjustment of frameInterval.
ClampInterval(frameInterval) ==
    IF frameInterval.nan \/ frameInterval.v < 5 THEN 5 ELSE frameInterval.v

\* export function loopFrames: the stack after the call.
loopFrames(stack, isSet, sprite, frames, frameInterval, r) ==
    LET st == init(stack, isSet)
        interval == ClampInterval(frameInterval)
        top == Len(st)
        chars == st[top].characters
        found == {i \in 1..Len(chars) : chars[i].sprite = sprite}
    IN  IF Rejected(sprite, frames, r)
        THEN st
        ELSE IF top = 0 THEN st
        ELSE IF found # {}
        THEN LET i == CHOOSE j \in found : \A k \in found : j <= k
             IN  [st EXCEPT ![top].characters[i] =
                     setFrames(chars[i], frames.images, interval, r)]
        ELSE LET newState == CharacterState(sprite) @@ [history |-> NoHistory]
             IN  [st EXCEPT ![top].characters =
                     Append(chars, setFrames(newState, frames.images, interval, r))]

LoopFrames ==
    \E sprite \in Sprites \cup {NoSprite}, clip \in ClipInputs, r \in RuleInputs :
        \E st \in {loopFrames(sceneStack, inited, sprite, clip[1], clip[2], r)} :
            LET stored == st # init(sceneStack, inited)
            IN  /\ stored => calls < MaxCalls
                /\ sceneStack' = st
                /\ inited' = TRUE
                /\ calls' = IF stored THEN calls + 1 ELSE calls
                /\ tick' = NoTick
                /\ UNCHANGED <<depth, destroyed, image, call>>

\* The host enters a scene: the push handler, once added, runs initScene.
ScenePush ==
    /\ depth < MaxDepth
    /\ depth' = depth + 1
    /\ sceneStack' = IF inited THEN initScene(sceneStack) ELSE sceneStack
    /\ tick' = NoTick
    /\ UNCHANGED <<inited, destroyed, image, calls, call>>

\* The host leaves a scene: the pop handler, once added, pops the stack.
ScenePop ==
    /\ depth > 0
    /\ depth' = depth - 1
    /\ sceneStack' = IF inited /\ Len(sceneStack) > 0
                     THEN SubSeq(sceneStack, 1, Len(sceneStack) - 1)
                     ELSE sceneStack
    /\ tick' = NoTick
    /\ UNCHANGED <<inited, destroyed, image, calls, call>>

\* The host destroys a sprite.
Destroy ==
    \E s \in Sprites \ destroyed :
        /\ Cardinality(destroyed) < MaxDestroyed
        /\ destroyed' = destroyed \cup {s}
        /\ tick' = NoTick
        /\ UNCHANGED <<sceneStack, inited, depth, image, calls, call>>

\* The for loop of CharacterAnimationSceneState.update: an error raised by a
\* controller's update leaves the loop and the method.
\* One pass of the for loop of CharacterAnimationSceneState.update, with
\* the result r of the controller's update.
UpdateStep(chars, i, sig, acc, r) ==
    LET c == chars[i]
        c2 == [r.ctl EXCEPT !.history = Track(c.history, sig, r.ctl.lastState)]
    IN  [acc EXCEPT
            !.characters = [chars EXCEPT ![i] = c2],
            !.ran = Append(acc.ran, c.sprite),
            !.before = Append(acc.before,
                [current |-> c.current, frame |-> c.frame, timer |-> c.timer]),
            !.shown[c.sprite] = acc.shown[c.sprite] \o r.shown,
            !.cleanup = acc.cleanup \/ c.sprite \in destroyed,
            !.threw = r.threw]

\* The for loop: an error raised by a controller's update leaves the loop
\* and the method.
RECURSIVE UpdateLoop(_, _, _, _)
UpdateLoop(i, sigs, dt, acc) ==
    IF i > Len(acc.characters) \/ acc.threw THEN acc
    ELSE UpdateLoop(i + 1, sigs, dt,
             CHOOSE a \in { UpdateStep(acc.characters, i,
                                       sigs[acc.characters[i].sprite], acc, r) :
                              r \in { update(acc.characters[i],
                                             sigs[acc.characters[i].sprite], dt) } }
                 : TRUE)

\* CharacterAnimationSceneState.update
SceneUpdate(reg, sigs, dt) ==
    LET r == UpdateLoop(1, sigs, dt,
                        [characters |-> reg.characters, ran |-> <<>>,
                         before |-> <<>>, threw |-> FALSE, shown |-> NoShown,
                         cleanup |-> FALSE])
    IN  IF ~r.threw /\ r.cleanup
        THEN [r EXCEPT !.characters =
                 SelectSeq(r.characters, LAMBDA c : c.sprite \notin destroyed)]
        ELSE r

\* A tick: the host runs the update handler of the current scene, which
\* initScene added for the registry on top of the stack.
Update ==
    /\ Len(sceneStack) > 0
    /\ \E sigs \in [Sprites -> Signals], dt \in Dts :
        \E r \in {SceneUpdate(sceneStack[Len(sceneStack)], sigs, dt)} :
            /\ sceneStack' =
                   [sceneStack EXCEPT ![Len(sceneStack)].characters = r.characters]
            /\ image' = [s \in Sprites |->
                            IF r.shown[s] = <<>> THEN image[s]
                            ELSE r.shown[s][Len(r.shown[s])]]
            /\ tick' = [ran |-> r.ran, before |-> r.before, threw |-> r.threw,
                        shown |-> r.shown]
    /\ UNCHANGED <<inited, depth, destroyed, calls, call>>

Next == LoopFrames \/ ScenePush \/ ScenePop \/ Destroy \/ Update

Spec == Init /\ [][Next]_vars

(***************************************************************************)
(* Function-level runs: a function applied once to an input drawn from a   *)
(* bounded set, the call and its result kept in `call`.                    *)
(***************************************************************************)
Program == <<sceneStack, inited, depth, destroyed, image, calls, tick>>

RECURSIVE SumOf(_)
SumOf(S) == IF S = {} THEN 0 ELSE LET x == CHOOSE y \in S : TRUE
                                  IN  x + SumOf(S \ {x})

\* The bitmasks score is tried on: no bit, one bit, two bits.
Masks ==
    {0} \cup Predicate \cup {BitOr(p, q) : p \in Predicate, q \in Predicate}

CallScore ==
    /\ call = NoCall
    /\ \E state \in Masks, r \in Masks :
           call' = [op |-> "score", state |-> state, rule |-> r,
                    res |-> score(state, r)]
    /\ UNCHANGED Program

SpecScore == Init /\ [][CallScore]_vars

\* rule(p1, p2?, p3?, p4?) with every choice of predicates, the optional ones
\* supplied or not.
CallRule ==
    /\ call = NoCall
    /\ \E p1 \in Predicate, p2 \in Predicate \cup {undefined},
          p3 \in Predicate \cup {undefined}, p4 \in Predicate \cup {undefined} :
           call' = [op |-> "rule", args |-> <<p1, p2, p3, p4>>,
                    res |-> rule(p1, p2, p3, p4, undefined)]
    /\ UNCHANGED Program

SpecRule == Init /\ [][CallRule]_vars

(***************************************************************************)
(* CharacterState.update applied to a controller object.  Its clips are as *)
(* loopFrames stores them: frames non-empty, interval at least 5, rules    *)
(* valid, nonzero and distinct; the frame index is one of the active       *)
(* clip's; a controller with no clip in `current` has frame 0 and timer 0. *)
(***************************************************************************)
\* Clips of a controller.
MaxClips == 2

ClipSet ==
    { CharacterAnimation(<<11>>, 5, NotMoving),
      CharacterAnimation(<<21, 22, 23>>, 10, FacingRight),
      CharacterAnimation(<<31, 32>>, 5, BitOr(NotMoving, FacingRight)),
      CharacterAnimation(<<41, 42>>, 10, BitOr(Moving, MovingLeft)) }

RECURSIVE ClipLists(_)
ClipLists(n) ==
    IF n = 0 THEN {<<>>}
    ELSE LET shorter == ClipLists(n - 1)
         IN  shorter \cup
             { Append(l, a) : l \in {m \in shorter : Len(m) = n - 1},
                              a \in ClipSet }

AnimationLists ==
    { l \in ClipLists(MaxClips) :
        /\ Len(l) > 0
        /\ \A i, j \in 1..Len(l) : i # j => l[i].rule # l[j].rule }

TimerInputs == {0, 4, 12}
LastStateInputs == {FacingRight, NotMoving + FacingUp + HittingWallUp}

Controller(l, cur, f, t, ls) ==
    [sprite |-> "s1", animations |-> l, timer |-> t, frame |-> f,
     lastState |-> ls, current |-> cur]

ControllerInputs ==
    UNION { { Controller(l, cur, 0, 0, ls) : cur \in {undefined, null} } \cup
            { Controller(l, cur, f, t, ls) :
                  cur \in 1..Len(l), f \in {0}, t \in TimerInputs } \cup
            { Controller(l, cur, Len(l[cur].frames) - 1, t, ls) :
                  cur \in 1..Len(l), t \in TimerInputs }
            : l \in AnimationLists, ls \in LastStateInputs }

UnitSignals ==
    { Signal(v[1], v[2], w) :
        v \in { <<0, 0>>, <<1, 0>>, <<2, 0>>, <<0 - 2, 0>>, <<0, 0 - 2>>, <<2, 2>> },
        w \in { {}, {"top", "bottom", "left", "right"} } }

UnitDts == {0, 5, 35}

CallUpdate ==
    /\ call = NoCall
    /\ \E c \in ControllerInputs, sig \in UnitSignals, dt \in UnitDts :
           call' = [op |-> "update", c |-> c, sig |-> sig, dt |-> dt,
                    out |-> update(c, sig, dt)]
    /\ UNCHANGED Program

\* The part of update that follows pickRule, for every value pickRule can
\* return.
CallPlayback ==
    /\ call = NoCall
    /\ \E c \in ControllerInputs, dt \in UnitDts :
        \E newAnimation \in {null} \cup (1..Len(c.animations)) :
           call' = [op |-> "playback", c |-> c, newAnimation |-> newAnimation,
                    dt |-> dt, out |-> Playback(c, newAnimation, dt)]
    /\ UNCHANGED Program

NextCtl == CallUpdate \/ CallPlayback

SpecCtl == Init /\ [][NextCtl]_vars

(***************************************************************************)
(* A call of loopFrames in any state the program reaches, kept in `call`   *)
(* with its arguments and the scene stack it found.                        *)
(***************************************************************************)
\* The (frames, frameInterval) arguments tried.
RegInputs ==
    { <<NoFrames, Num(10)>>, <<Frames(<<>>), Num(10)>>,
      <<Frames(<<11>>), NaNValue>>, <<Frames(<<11>>), Num(0 - 3)>>,
      <<Frames(<<11>>), Num(0)>>, <<Frames(<<21, 22, 23>>), Num(4)>>,
      <<Frames(<<21, 22, 23>>), Num(5)>>, <<Frames(<<21, 22, 23>>), Num(10)>> }

CallLoopFrames ==
    /\ call = NoCall
    /\ \E sprite \in Sprites \cup {NoSprite}, clip \in RegInputs, r \in RuleInputs :
           /\ sceneStack' = loopFrames(sceneStack, inited, sprite, clip[1],
                                       clip[2], r)
           /\ call' = [op |-> "loopFrames", sprite |-> sprite, frames |-> clip[1],
                       frameInterval |-> clip[2], rule |-> r,
                       before |-> sceneStack, isSet |-> inited]
    /\ inited' = TRUE
    /\ tick' = NoTick
    /\ UNCHANGED <<depth, destroyed, image, calls>>

NextReg == (call = NoCall /\ Next) \/ CallLoopFrames

SpecReg == Init /\ [][NextReg]_vars

(***************************************************************************)
(* CharacterAnimationSceneState.update applied to a registry of one or two *)
(* controllers: as loopFrames creates them (no clip in `current`), or with *)
(* their first clip active.                                                *)
(***************************************************************************)
SceneControllers(sprite) ==
    { [sprite |-> sprite, animations |-> l, timer |-> 0, frame |-> 0,
       lastState |-> FacingRight, current |-> cur, history |-> NoHistory] :
          l \in { <<CharacterAnimation(<<11>>, 5, NotMoving)>>,
                  <<CharacterAnimation(<<21, 22, 23>>, 10, FacingRight),
                    CharacterAnimation(<<41, 42>>, 10, BitOr(Moving, MovingLeft))>> },
          cur \in {undefined, 1} }

RegistryInputs ==
    { [characters |-> <<c>>] : c \in SceneControllers("s1") } \cup
    { [characters |-> <<c, d>>] :
          c \in SceneControllers("s1"), d \in SceneControllers("s2") } \cup
    { [characters |-> <<d, c>>] :
          c \in SceneControllers("s1"), d \in SceneControllers("s2") }

CallSceneUpdate ==
    /\ call = NoCall
    /\ \E reg \in RegistryInputs, sigs \in [Sprites -> Signals], dt \in Dts :
           call' = [op |-> "sceneUpdate", reg |-> reg, sigs |-> sigs, dt |-> dt,
                    out |-> SceneUpdate(reg, sigs, dt)]
    /\ UNCHANGED Program

SpecScene == Init /\ [][CallSceneUpdate]_vars

(***************************************************************************)
(* A controller with an active clip on which setFrames replaces the frames *)
(* and interval of one of its clips, as loopFrames does on a registration  *)
(* for a rule the controller has, and which is then updated.               *)
(***************************************************************************)
ReplacementInputs ==
    { <<<<51>>, 5>>, <<<<51>>, 20>>, <<<<61, 62, 63, 64>>, 5>> }

CallReplace ==
    /\ call = NoCall
    /\ \E c \in {d \in ControllerInputs : IsClip(d.current)},
          clip \in ReplacementInputs, dt \in Dts :
        \E i \in 1..Len(c.animations) :
          \E mid \in {setFrames(c, clip[1], clip[2], c.animations[i].rule)} :
           call' = [op |-> "replace", c |-> c, frames |-> clip[1],
                    interval |-> clip[2], rule |-> c.animations[i].rule,
                    mid |-> mid, dt |-> dt,
                    out |-> update(mid, Signal(0, 0, {}), dt)]
    /\ UNCHANGED Program

SpecReplace == Init /\ [][CallReplace]_vars

(***************************************************************************)
(* What the claims speak of.                                               *)
(***************************************************************************)
\* The positions of the bits set in a 14-bit mask.
Bits(x) == {i \in 0..13 : (x \div Shl(1, i)) % 2 = 1}

\* The number of bit positions set in both masks.
IntersectionSize(a, b) == Cardinality(Bits(a) \cap Bits(b))

\* The predicates supplied to a call of rule.
Supplied(args) == {args[i] : i \in 1..4} \ {undefined}

\* A set of predicates that contains one of the contradictions.
Contradictory(S) ==
    \/ NotMoving \in S
       /\ S \cap {Moving, MovingUp, MovingRight, MovingDown, MovingLeft} # {}
    \/ S \cap {FacingLeft, MovingLeft} # {} /\ S \cap {FacingRight, MovingRight} # {}
    \/ S \cap {FacingUp, MovingUp} # {} /\ S \cap {FacingDown, MovingDown} # {}
    \/ MovingUp \in S /\ HittingWallUp \in S
    \/ MovingRight \in S /\ HittingWallRight \in S
    \/ MovingDown \in S /\ HittingWallDown \in S
    \/ MovingLeft \in S /\ HittingWallLeft \in S

\* C1: score(state, rule) is the number of bit positions set in both state
\* and rule, so it is symmetric and the empty rule scores 0.
ScoreIsIntersectionSize ==
    call.op = "score" => call.res = IntersectionSize(call.state, call.rule)

\* C9: rule(...) returns the empty rule 0 whenever the predicates supplied
\* contain a contradiction.
RuleRejectsContradictions ==
    (call.op = "rule" /\ Contradictory(Supplied(call.args))) => call.res = 0

RuleRejectsContradictionsWitness ==
    /\ call.op = "rule"
    /\ Supplied(call.args) = {MovingLeft, HittingWallLeft, FacingUp, HittingWallDown}
    /\ call.res = 0

\* C10: rule(...) returns exactly the OR of the predicates supplied, a nonzero
\* mask that depends only on which predicates were supplied, whenever they
\* contain no contradiction.
RuleIsOrOfPredicates ==
    (call.op = "rule" /\ ~Contradictory(Supplied(call.args))) =>
        /\ call.res = SumOf(Supplied(call.args))
        /\ call.res # 0

RuleIsOrOfPredicatesWitness ==
    /\ call.op = "rule"
    /\ call.args = <<HittingWallLeft, FacingUp, Moving, MovingUp>>
    /\ call.res = Moving + FacingUp + MovingUp + HittingWallLeft

(***************************************************************************)
(* Claims about a tick of the program.                                     *)
(***************************************************************************)
\* The controllers of the registry that the last step updated, with their
\* place in the record of the tick.
Ticked ==
    LET chars == IF Len(sceneStack) = 0 THEN <<>>
                 ELSE sceneStack[Len(sceneStack)].characters
    IN  UNION { { [i |-> i, c |-> chars[k]] :
                    k \in {j \in 1..Len(chars) : chars[j].sprite = tick.ran[i]} }
                : i \in 1..Len(tick.ran) }

\* The update of the i-th controller of the tick raised an error.
Raised(i) == tick.threw /\ i = Len(tick.ran)

\* The clips whose rule shares the most bits with the state, when that is
\* at least one bit.
BestClips(animations, state) ==
    { i \in 1..Len(animations) :
        /\ IntersectionSize(state, animations[i].rule) > 0
        /\ \A j \in 1..Len(animations) :
              IntersectionSize(state, animations[j].rule)
                  <= IntersectionSize(state, animations[i].rule) }

\* C2: a tick on which no clip's rule shares a bit with the derived state
\* selects no clip: the update returns, the controller is Idle after it and
\* no image was set on the sprite.
ZeroScoreSelectsNone ==
    \A t \in Ticked :
        (\A i \in 1..Len(t.c.animations) :
            IntersectionSize(t.c.lastState, t.c.animations[i].rule) = 0)
        => /\ ~Raised(t.i)
           /\ ~IsClip(t.c.current)
           /\ tick.shown[t.c.sprite] = <<>>

\* C4: an update of a controller with no active clip, when two or more clips
\* tie for the highest nonzero score, makes the earliest registered of them
\* the active clip.
FirstRegisteredWinsFromIdle ==
    \A t \in Ticked :
        LET best == BestClips(t.c.animations, t.c.lastState)
        IN  (~IsClip(tick.before[t.i].current) /\ Cardinality(best) >= 2)
            => /\ ~Raised(t.i)
               /\ t.c.current = CHOOSE i \in best : \A j \in best : i <= j

\* C5: no call raises an error; an update of a controller with no active
\* clip returns normally.
NoErrorRaised == ~tick.threw

\* C8: on every tick with velocity (0,0) that follows a moving tick with only
\* such ticks between, the state derived contains NotMoving, exactly the
\* facing bits of the moving tick, and no moving bit.
FacingPersistsThroughStop ==
    \A r \in 1..Len(sceneStack) :
        \A k \in 1..Len(sceneStack[r].characters) :
            LET c == sceneStack[r].characters[k]
            IN  c.history.stopped >= 1 =>
                    /\ BitAnd(c.lastState, NotMoving) # 0
                    /\ BitAnd(c.lastState, FACING) = c.history.moved
                    /\ BitAnd(c.lastState, MOVING) = 0

FacingPersistsThroughStopWitness ==
    \E r \in 1..Len(sceneStack) :
        \E k \in 1..Len(sceneStack[r].characters) :
            LET c == sceneStack[r].characters[k]
            IN  /\ c.history.stopped >= 2
                /\ c.history.moved = FacingRight
                /\ BitAnd(c.lastState, FacingRight) # 0

(***************************************************************************)
(* Claims about CharacterState.update as a method.                         *)
(***************************************************************************)
\* The images a clip shows when it advances k frames from frame f.
FramesShown(clip, f, k) ==
    [j \in 1..k |-> clip.frames[((f + j) % Len(clip.frames)) + 1]]

\* The call advanced the clip from frame f with t elapsed, by dt.
AdvancedFrom(clip, f, t, dt, out, shown) ==
    LET k == (t + dt) \div clip.interval
    IN  /\ shown = FramesShown(clip, f, k)
        /\ out.frame = (f + k) % Len(clip.frames)
        /\ out.timer = (t + dt) - k * clip.interval
        /\ out.timer < clip.interval

\* C3: when the active clip ties with another clip for the highest nonzero
\* score, it is still the active clip after the update and its frame index
\* and elapsed time were advanced, not reset.
IncumbentKeptOnTie ==
    call.op = "update" =>
        LET c == call.c
            state == call.out.ctl.lastState
            best == BestClips(c.animations, state)
        IN  (IsClip(c.current) /\ c.current \in best /\ Cardinality(best) >= 2)
            => /\ ~call.out.threw
               /\ call.out.ctl.current = c.current
               /\ call.out.ctl.timer + Len(call.out.shown)
                      * c.animations[c.current].interval = c.timer + call.dt
               /\ call.out.ctl.frame = (c.frame + Len(call.out.shown))
                      % Len(c.animations[c.current].frames)

IncumbentKeptOnTieWitness ==
    /\ call.op = "update"
    /\ call.c.current = 2
    /\ call.c.timer = 4
    /\ call.c.frame = 1
    /\ BestClips(call.c.animations, call.out.ctl.lastState) = {1, 2}
    /\ call.out.ctl.current = 2
    /\ Len(call.out.shown) > 0

\* C6: when the clip selected differs from the active clip, the update makes
\* it the active clip and sets its frame 0 on the sprite first, then advances
\* from frame 0 and elapsed 0; when it is the same clip, frame index and
\* elapsed time are advanced from where they were.
SwitchResetsPlayback ==
    call.op = "playback" =>
        LET c == call.c
            new == call.newAnimation
            out == call.out
        IN  /\ (new # c.current /\ IsClip(new)) =>
                  /\ out.ctl.current = new
                  /\ Len(out.shown) >= 1
                  /\ out.shown[1] = c.animations[new].frames[1]
                  /\ AdvancedFrom(c.animations[new], 0, 0, call.dt, out.ctl,
                                  Tail(out.shown))
            /\ (new # c.current /\ ~IsClip(new)) =>
                  /\ out.ctl.current = new
                  /\ out.ctl.frame = 0
                  /\ out.ctl.timer = 0
            /\ (new = c.current /\ IsClip(new)) =>
                  /\ out.ctl.current = c.current
                  /\ out.ctl.timer + Len(out.shown) * c.animations[new].interval
                         = c.timer + call.dt
                  /\ out.ctl.frame = (c.frame + Len(out.shown))
                         % Len(c.animations[new].frames)

SwitchResetsPlaybackWitness ==
    /\ call.op = "playback"
    /\ call.c.current = 1
    /\ call.newAnimation = 2
    /\ call.c.frame = 2
    /\ call.c.timer = 12
    /\ call.dt = 5
    /\ call.out.ctl.current = 2
    /\ call.out.shown[1] = call.c.animations[2].frames[1]

\* C7: an update that keeps the active clip (n frames, interval i) advances
\* k = floor((t + dt) / i) frames from frame f: it shows frames (f+1) mod n,
\* ..., (f+k) mod n in order and ends at frame (f+k) mod n with
\* (t + dt) - k*i < i elapsed.
FrameAdvanceLoop ==
    (call.op = "update" /\ IsClip(call.c.current) /\ ~call.out.threw
        /\ call.out.ctl.current = call.c.current)
    => AdvancedFrom(call.c.animations[call.c.current], call.c.frame,
                    call.c.timer, call.dt, call.out.ctl, call.out.shown)

\* i = 10, n = 3, f = 0, t = 0, dt = 35: frames 1, 2, 0 are shown, the clip
\* ends at frame 0 with 5 elapsed.
FrameAdvanceLoopWitness ==
    /\ call.op = "update"
    /\ IsClip(call.c.current)
    /\ call.c.animations[call.c.current].frames = <<21, 22, 23>>
    /\ call.c.animations[call.c.current].interval = 10
    /\ call.c.frame = 0
    /\ call.c.timer = 0
    /\ call.dt = 35
    /\ call.out.shown = <<22, 23, 21>>
    /\ call.out.ctl.frame = 0
    /\ call.out.ctl.timer = 5

(***************************************************************************)
(* Claims about registration.                                              *)
(***************************************************************************)
\* The registries the call found are as they were, and a registry the call
\* created has no controller.
ControllersUntouched ==
    /\ Len(sceneStack) >= Len(call.before)
    /\ \A k \in 1..Len(call.before) : sceneStack[k] = call.before[k]
    /\ \A k \in (Len(call.before) + 1)..Len(sceneStack) :
           sceneStack[k].characters = <<>>

\* C11: loopFrames called with a missing sprite, with missing or empty
\* frames, or with the empty rule 0 creates no controller and adds or
\* replaces no clip in any controller of any registry.
RejectedRegistrationIsNoOp ==
    (call.op = "loopFrames"
        /\ (\/ call.sprite = NoSprite
            \/ ~call.frames.present
            \/ call.frames.images = <<>>
            \/ call.rule = 0))
    => ControllersUntouched

RejectedRegistrationIsNoOpWitness ==
    /\ call.op = "loopFrames"
    /\ call.sprite = "s1"
    /\ call.frames = Frames(<<11>>)
    /\ call.rule = 0
    /\ Len(call.before) = 2
    /\ call.before[1].characters # <<>>
    /\ sceneStack = call.before

\* The least interval a clip is stored with.
IntervalFloor == 5

\* The interval loopFrames stores for a frameInterval argument.
StoredInterval(frameInterval) ==
    IF frameInterval.nan THEN IntervalFloor
    ELSE IF frameInterval.v < IntervalFloor THEN IntervalFloor
    ELSE frameInterval.v

\* The call's arguments are valid: it registers a clip.
ValidRegistration ==
    /\ call.op = "loopFrames"
    /\ call.sprite # NoSprite
    /\ call.frames.present
    /\ call.frames.images # <<>>
    /\ call.rule # 0

\* The controllers of the registry the call registers into, as it found them.
RegistryBefore ==
    IF Len(call.before) = 0 THEN <<>>
    ELSE call.before[Len(call.before)].characters

\* Sequence t is sequence s with its element i replaced by x.
ReplacedAt(s, t, i, x) ==
    /\ Len(t) = Len(s)
    /\ t[i] = x
    /\ \A j \in 1..Len(s) : j # i => t[j] = s[j]

\* No two controllers of a registry have the same sprite, and no two clips of
\* a controller the same rule.
OnePerKey(chars) ==
    /\ \A i, j \in 1..Len(chars) : chars[i].sprite = chars[j].sprite => i = j
    /\ \A k \in 1..Len(chars) :
          \A i, j \in 1..Len(chars[k].animations) :
              chars[k].animations[i].rule = chars[k].animations[j].rule => i = j

\* C12: registration is an upsert keyed by (sprite, rule).  A registry holds
\* at most one controller per sprite and a controller at most one clip per
\* rule; a valid call for a rule the sprite's controller has replaces that
\* clip's frames and interval at its position and changes nothing else; for
\* a new rule it appends the clip; for a new sprite it appends a controller
\* with that one clip.
RegistrationIsUpsert ==
    /\ \A r \in 1..Len(sceneStack) : OnePerKey(sceneStack[r].characters)
    /\ ValidRegistration =>
          LET old == RegistryBefore
              new == sceneStack[Len(sceneStack)].characters
              clip == [frames |-> call.frames.images,
                       interval |-> StoredInterval(call.frameInterval),
                       rule |-> call.rule]
              ks == {k \in 1..Len(old) : old[k].sprite = call.sprite}
          IN  IF ks = {}
              THEN /\ Len(new) = Len(old) + 1
                   /\ SubSeq(new, 1, Len(old)) = old
                   /\ new[Len(new)].sprite = call.sprite
                   /\ new[Len(new)].animations = <<clip>>
              ELSE \A k \in ks :
                     LET is == {i \in 1..Len(old[k].animations) :
                                   old[k].animations[i].rule = call.rule}
                     IN  IF is = {}
                         THEN ReplacedAt(old, new, k,
                                  [old[k] EXCEPT !.animations = Append(@, clip)])
                         ELSE \A i \in is :
                                ReplacedAt(old, new, k,
                                    [old[k] EXCEPT !.animations[i] = clip])

\* A three-frame clip at position 1 of 2 is replaced by a one-frame clip.
RegistrationIsUpsertWitness ==
    /\ ValidRegistration
    /\ \E k \in 1..Len(RegistryBefore) :
          LET c == RegistryBefore[k]
              d == sceneStack[Len(sceneStack)].characters[k]
          IN  /\ c.sprite = call.sprite
              /\ Len(c.animations) = 2
              /\ c.animations[1].rule = call.rule
              /\ Len(c.animations[1].frames) = 3
              /\ Len(d.animations) = 2
              /\ d.animations[1].frames = <<11>>
              /\ d.animations[1].interval = IntervalFloor

\* The clips of the call's sprite with the call's rule, after the call.
StoredClips ==
    LET chars == sceneStack[Len(sceneStack)].characters
    IN  UNION { { chars[k].animations[i] :
                    i \in {j \in 1..Len(chars[k].animations) :
                              chars[k].animations[j].rule = call.rule} }
                : k \in {j \in 1..Len(chars) : chars[j].sprite = call.sprite} }

\* C13: every clip stored has an interval of at least the floor: a
\* frameInterval that is not-a-number or below the floor (zero and negative
\* included) is stored as the floor, any other unchanged; so the
\* frame-advance loop on a stored clip ends, after at most elapsed/floor
\* passes, with less than the interval left.
IntervalNeverBelowFloor ==
    /\ \A r \in 1..Len(sceneStack) :
          \A k \in 1..Len(sceneStack[r].characters) :
              \A i \in 1..Len(sceneStack[r].characters[k].animations) :
                  sceneStack[r].characters[k].animations[i].interval >= IntervalFloor
    /\ ValidRegistration =>
          /\ StoredClips # {}
          /\ \A clip \in StoredClips :
                /\ clip.interval = StoredInterval(call.frameInterval)
                /\ \A elapsed \in {0, 4, 35, 47} :
                      \E r \in {AdvanceLoop(clip, elapsed, 0, <<>>)} :
                          /\ Len(r.shown) <= elapsed \div IntervalFloor
                          /\ r.timer >= 0
                          /\ r.timer < clip.interval

\* A registration with interval 0 stores the floor, and 35 ms then advance
\* the clip seven frames.
IntervalNeverBelowFloorWitness ==
    /\ ValidRegistration
    /\ call.frameInterval = Num(0)
    /\ \E clip \in StoredClips :
          /\ clip.interval = IntervalFloor
          /\ Len(AdvanceLoop(clip, 35, 0, <<>>).shown) = 7

(***************************************************************************)
(* Claims about a registry update.                                         *)
(***************************************************************************)
\* The controllers of the registry on top of the stack.
TopCharacters ==
    IF Len(sceneStack) = 0 THEN <<>>
    ELSE sceneStack[Len(sceneStack)].characters

\* C14: when a registry update has run, every controller of the registry
\* was updated in it, and no controller whose sprite is destroyed is left in
\* the registry.
DestroyedControllersRemoved ==
    tick.ran # <<>> =>
        /\ \A k \in 1..Len(TopCharacters) :
               TopCharacters[k].sprite \notin destroyed
        /\ \A k \in 1..Len(TopCharacters) :
               \E i \in 1..Len(tick.ran) : tick.ran[i] = TopCharacters[k].sprite

(***************************************************************************)
(* Further claims about CharacterState.update as a method.                 *)
(***************************************************************************)
\* C15: after an update on which some clip's rule shares a bit with the
\* derived state, the active clip is one whose rule shares the most bits
\* with it, whichever clip was active before.  (Stated for the updates of a
\* controller that has an active clip, which are those that can return.)
MostSpecificMatch ==
    (call.op = "update" /\ IsClip(call.c.current)) =>
        LET best == BestClips(call.c.animations, call.out.ctl.lastState)
        IN  best # {} => /\ ~call.out.threw
                         /\ call.out.ctl.current \in best

\* The predicates of the situation: the sprite's velocity and wall contacts,
\* and the state stored on the tick before.
Situation(lastState, sig) ==
    (IF sig.vx # 0 \/ sig.vy # 0
     THEN {Moving}
          \cup (IF sig.vx > 0 THEN {FacingRight, MovingRight} ELSE {})
          \cup (IF sig.vx < 0 THEN {FacingLeft, MovingLeft} ELSE {})
          \cup (IF sig.vy > 0 THEN {FacingDown, MovingDown} ELSE {})
          \cup (IF sig.vy < 0 THEN {FacingUp, MovingUp} ELSE {})
     ELSE {NotMoving}
          \cup {p \in {FacingUp, FacingRight, FacingDown, FacingLeft} :
                   Bits(p) \subseteq Bits(lastState)})
    \cup (IF sig.top THEN {HittingWallUp} ELSE {})
    \cup (IF sig.right THEN {HittingWallRight} ELSE {})
    \cup (IF sig.bottom THEN {HittingWallDown} ELSE {})
    \cup (IF sig.left THEN {HittingWallLeft} ELSE {})

\* C16: the state an update derives, and stores as the last state before it
\* scores, is exactly Moving with the facing and moving bits of the nonzero
\* velocity components when vx or vy is nonzero, otherwise NotMoving with
\* the facing bits of the state stored before, and in both cases the bit of
\* each wall in contact.
DerivedStateIsExact ==
    call.op = "update" =>
        call.out.ctl.lastState = SumOf(Situation(call.c.lastState, call.sig))

(***************************************************************************)
(* Claims about the scene stack.                                           *)
(***************************************************************************)
\* What a step does to the scene stack once the stack and the scene
\* handlers exist.
SceneStep ==
    /\ (inited /\ depth' = depth + 1) =>
           sceneStack' = Append(sceneStack, [characters |-> <<>>])
    /\ (inited /\ depth' = depth - 1) =>
           /\ Len(sceneStack') = IF Len(sceneStack) = 0 THEN 0
                                 ELSE Len(sceneStack) - 1
           /\ \A k \in 1..Len(sceneStack') : sceneStack'[k] = sceneStack[k]
    /\ depth' = depth =>
           /\ \/ Len(sceneStack') = Len(sceneStack)
              \/ Len(sceneStack) = 0 /\ Len(sceneStack') = 1
           /\ \A k \in 1..(Len(sceneStack) - 1) : sceneStack'[k] = sceneStack[k]
    /\ calls' = calls + 1 =>
           sceneStack'[Len(sceneStack')].characters # TopCharacters

\* C17: a scene push puts a registry with no controllers on top of the
\* stack; a scene pop removes the top registry only; loopFrames registers
\* into the registry on top, created if the stack is empty; and no step
\* changes a registry below the top, so what was registered before a push is
\* registered after the matching pop.
SceneStackDiscipline == [][SceneStep]_vars

\* A clip was registered, a scene pushed, and a clip registered in it.
SceneStackDisciplineWitness ==
    /\ Len(sceneStack) = 2
    /\ depth = 1
    /\ Len(sceneStack[1].characters) = 1
    /\ Len(sceneStack[2].characters) = 1
    /\ calls = 2

(***************************************************************************)
(* Claims about CharacterAnimationSceneState.update as a method.           *)
(***************************************************************************)
\* C18: a registry update visits the controllers in the order of the
\* registry, and leaves each controller, and the images set on its sprite,
\* as an update of a registry holding that controller alone does.
ControllersIndependent ==
    call.op = "sceneUpdate" =>
        /\ call.out.ran = [k \in 1..Len(call.reg.characters) |->
                               call.reg.characters[k].sprite]
        /\ Len(call.out.characters) = Len(call.reg.characters)
        /\ \A k \in 1..Len(call.reg.characters) :
              LET c == call.reg.characters[k]
                  alone == SceneUpdate([characters |-> <<c>>], call.sigs, call.dt)
              IN  /\ call.out.characters[k] = alone.characters[1]
                  /\ call.out.shown[c.sprite] = alone.shown[c.sprite]

(***************************************************************************)
(* Claims about the states a run of the program stores.                    *)
(***************************************************************************)
Has(mask, p) == BitAnd(mask, p) # 0

\* A state that describes one situation.
SelfConsistent(mask) ==
    /\ Has(mask, NotMoving) # Has(mask, Moving)
    /\ Has(mask, NotMoving) =>
           ~Has(mask, MovingUp + MovingRight + MovingDown + MovingLeft)
    /\ ~(Has(mask, FacingLeft) /\ Has(mask, FacingRight))
    /\ ~(Has(mask, FacingUp) /\ Has(mask, FacingDown))
    /\ Has(mask, FACING)

\* C19: the last state of a controller is FacingRight, as its constructor
\* set it, until a tick stores one, and every state a tick stores is
\* self-consistent: exactly one of NotMoving and Moving, no moving bit with
\* NotMoving, no two opposite facing bits, and at least one facing bit.
LastStateSelfConsistent ==
    /\ \A r \in 1..Len(sceneStack) :
          \A k \in 1..Len(sceneStack[r].characters) :
              \/ sceneStack[r].characters[k].lastState = FacingRight
              \/ SelfConsistent(sceneStack[r].characters[k].lastState)
    /\ \A t \in Ticked : SelfConsistent(t.c.lastState)

\* A character that moved left and down has stopped.
LastStateSelfConsistentWitness ==
    \E t \in Ticked : t.c.lastState = NotMoving + FacingDown + FacingLeft

(***************************************************************************)
(* Claims about registration on a controller that is playing.              *)
(***************************************************************************)
\* The frame index of a controller is an index of its active clip's frames.
FrameInRange(c) ==
    IsClip(c.current) =>
        /\ 0 <= c.frame
        /\ c.frame < Len(c.animations[c.current].frames)

=============================================================================
